---- MODULE Spec2Model ----
\* A model of DynamicPasswordManager (src/scirpt3.py): master-password
\* verification with lockout, key derivation and caching, and the encrypted
\* record operations, for one username and several manager objects (sessions)
\* that share the store.  A step of a session is one store call together with
\* the local code that follows it up to the next store call.
EXTENDS Integers, Sequences, FiniteSets, TLC

\* ------------------------------------------------------------------ bounds
MaxFailed == 7
MaxNow == 541

\* ------------------------------------------------------- program constants
LockoutThreshold == 5
BaseLockoutMinutes == 3
SecondsPerMinute == 60

\* ------------------------------------------------------------ input domains
Sessions == {"s1", "s2"}
Passwords == {"pwA", "pwB"}
Pins == {"111111", "999999"}
Salts == {"saltX", "saltY"}
TotpSecrets == {"TOTP1"}
Codes == {"TOTP1", "000000"}
\* The names of passwords, PINs and salts are interchangeable: the one account
\* creation of a run draws the first of each.
NewPasswords == {"pwA"}
NewPins == {"111111"}
NewSalts == {"saltX"}
Fields == {"0", "alice"}
SiteInputs == {<<"0", "0">>, <<"alice", "gen">>, <<"alice", " GEN ">>,
               <<"alice", "hunter2">>}
WalletInputs == {<<"0", "0", "0">>, <<"alice", "gen", "seed words">>}

NoHash == <<"nohash">>
NoSalt == "NoSalt"
NoKey == <<"nokey">>
NoRow == <<"norow">>
NoTotp == ""

VARIABLES
    \* the store (DatabaseConnector), for the one username
    user_password, recovery_pin, user_salt, totp_secret,
    failed_attempts, lockout_until,
    site_row, wallet_row, doc_row,
    \* wall clock, int(time.time())
    now,
    \* per manager object
    pc, op, mp, loc, fer, closed, out, verified, printed, hash_checked,
    \* history: lockout writes by inc_login_failure since the last reset
    fail_writes,
    \* history: "never" enrolled, "enabled", or "disabled" after an enrolment
    totp_history,
    \* main: the master password typed at the login prompt (line 309)
    master_password

dbvars == <<user_password, recovery_pin, user_salt, totp_secret,
            failed_attempts, lockout_until, site_row, wallet_row, doc_row>>
credvars == <<user_password, recovery_pin, user_salt, totp_secret>>
lockvars == <<failed_attempts, lockout_until, fail_writes>>
rowvars == <<site_row, wallet_row, doc_row>>
sessvars == <<pc, op, mp, loc, fer, closed, out, verified, printed, hash_checked>>
vars == <<dbvars, now, sessvars, fail_writes, totp_history, master_password>>

\* ------------------------------------------------------- library primitives
\* argon2 PasswordHasher: the hash string determines the secret it verifies.
ph_hash(secret) == <<"argon2", secret>>
ph_verify(hash, secret) == hash = ph_hash(secret)

\* PBKDF2HMAC + urlsafe_b64encode: deterministic in (password, salt).
derive_key_from_salt_only(password, salt) == <<"key", "", salt>>

derive_key(password, salt) == <<"key", password, salt>>

\* Fernet: a token can be opened only with the key that made it.
InvalidToken == "InvalidToken"
fer_encrypt(key, plaintext) == <<"token", key, plaintext>>
fer_decrypt_any_key(key, token) == token[3]

fer_decrypt_garbled(key, token) == IF token[2] = key THEN "" ELSE InvalidToken

fer_decrypt(key, token) == IF token[2] = key THEN token[3] ELSE InvalidToken

\* pyotp.TOTP(secret).verify(code)
totp_verify(secret, code) == code = secret

\* ------------------------------------------------------------ the store
\* DatabaseConnector is outside the source given; these follow section 6 of
\* the specification (a keyed record store, one credential record per user).
\* createUser: the username is the primary key, a second record is refused.
db_user_exists(stored_hash) == stored_hash # NoHash

\* updatePasswordHash: mutates the record of an existing user only.
db_update_master_password(stored_hash, new_hash) ==
    IF db_user_exists(stored_hash) THEN new_hash ELSE stored_hash

\* updateField: changes the named record only when there is one.
db_update_doc(row, new_row) == IF row = NoRow THEN NoRow ELSE new_row

\* deleteAllUserData: removes each of the user's secret records; the
\* credential record has no deletion in its life cycle (section 3).
db_delete_user_data(row) == NoRow

\* ------------------------------------------------------------ pure helpers
RECURSIVE Pow2(_)
Pow2(n) == IF n <= 0 THEN 1 ELSE 2 * Pow2(n - 1)

lockout_ignored(current_time, lockout) == FALSE

lockout_ends_a_second_early(current_time, lockout) == current_time + 1 < lockout

lockout_lasts_a_second_longer(current_time, lockout) == current_time <= lockout

is_locked_out(current_time, lockout) == current_time < lockout

lockout_not_doubled(attempts) == BaseLockoutMinutes

lockout_duration_minutes(attempts) ==
    BaseLockoutMinutes * Pow2(attempts - LockoutThreshold)

lockout_from_fourth(attempts, current_time) ==
    IF attempts >= LockoutThreshold - 1
    THEN current_time + BaseLockoutMinutes * SecondsPerMinute
    ELSE 0

new_lockout_until(attempts, current_time) ==
    IF attempts >= LockoutThreshold
    THEN current_time + lockout_duration_minutes(attempts) * SecondsPerMinute
    ELSE 0

totp_never_asked(secret) == FALSE

totp_always_asked(secret) == TRUE

totp_enrolled(secret) == secret # NoTotp

salt_always_missing(salt) == TRUE

salt_missing(salt) == salt = NoSalt

zero_to_empty(value) == IF value = "0" THEN "" ELSE value

or_default(value, default) == IF value = "" THEN default ELSE value

\* password.strip().lower(), on the values the model draws
strip_lower(value) == IF value = " GEN " THEN "gen" ELSE value

\* ------------------------------------------------------------ session state
\* The local variables of the call in progress (or of the last call made):
\*   fa0, lu0, t0  failed_attempts, lockout_until, current_time (lines 72-74)
\*   code          the 2FA code typed at the prompt (line 121)
\*   fa, lu, ct    failed_attempts, lockout_until, current_time (lines 131-137)
\*   salt          user_salt (lines 32, 55-57)
\*   row           the encrypted fields about to be stored (lines 210-212)
\*   pin           the recovery PIN the call was given
\*   args          the field values the call was given
NoLoc == [fa0 |-> 0, lu0 |-> 0, t0 |-> 0, code |-> "-",
          fa |-> 0, lu |-> 0, ct |-> 0, salt |-> NoSalt, row |-> NoRow,
          pin |-> "-", args |-> <<>>]

\* The frame of a call that was given a PIN, and of one given field values.
PinFrame(pin) == [NoLoc EXCEPT !.pin = pin]
ArgsFrame(args) == [NoLoc EXCEPT !.args = args]

\* What a call hands back: a return value or the exception it raises.
R(kind, val) == [kind |-> kind, val |-> val]
Pending == R("pending", <<>>)
Nothing == R("none", <<>>)
RetNone == R("None", <<>>)
RetTrue == R("True", <<>>)
RetFalse == R("False", <<>>)
InvalidMaster == R("ValueError", <<"Invalid master password">>)
SaltNotFound == R("ValueError", <<"User salt not found">>)
InvalidPin == R("ValueError", <<"Invalid PIN">>)
AttributeError == R("AttributeError", <<"fer">>)
TokenError == R("InvalidToken", <<>>)
StoreError == R("StoreError", <<>>)

Idle(s) == pc[s] = "idle"

\* main makes no call on a manager object after close(); what the closed
\* store connection would answer is outside the source given.
CanBegin(s) == Idle(s) /\ ~closed[s]

\* A call begins: the frame and the outcome of the previous call are gone.
Call(s, name, password, at, frame, value) ==
    /\ op' = [op EXCEPT ![s] = name]
    /\ mp' = [mp EXCEPT ![s] = password]
    /\ pc' = [pc EXCEPT ![s] = at]
    /\ out' = [out EXCEPT ![s] = value]
    /\ verified' = [verified EXCEPT ![s] = "none"]
    /\ printed' = [printed EXCEPT ![s] = "none"]
    /\ hash_checked' = [hash_checked EXCEPT ![s] = FALSE]
    /\ loc' = [loc EXCEPT ![s] = frame]

\* The call suspends at its first store call that is not its last.
Enter(s, name, password, at) == Call(s, name, password, at, NoLoc, Pending)

\* The call runs to its end in one step.
Single(s, name, value) == Call(s, name, "-", "idle", NoLoc, value)

\* The call returns (or raises) `value` to its caller.
Leave(s, value) ==
    /\ pc' = [pc EXCEPT ![s] = "idle"]
    /\ out' = [out EXCEPT ![s] = value]

Goto(s, at) == pc' = [pc EXCEPT ![s] = at]

Init ==
    /\ user_password = NoHash
    /\ recovery_pin = NoHash
    /\ user_salt = NoSalt
    /\ totp_secret = NoTotp
    /\ failed_attempts = 0
    /\ lockout_until = 0
    /\ site_row = NoRow
    /\ wallet_row = NoRow
    /\ doc_row = NoRow
    /\ now = 0
    /\ pc = [s \in Sessions |-> "idle"]
    /\ op = [s \in Sessions |-> "none"]
    /\ mp = [s \in Sessions |-> "-"]
    /\ loc = [s \in Sessions |-> NoLoc]
    /\ fer = [s \in Sessions |-> NoKey]
    /\ closed = [s \in Sessions |-> FALSE]
    /\ out = [s \in Sessions |-> Nothing]
    /\ verified = [s \in Sessions |-> "none"]
    /\ printed = [s \in Sessions |-> "none"]
    /\ hash_checked = [s \in Sessions |-> FALSE]
    /\ fail_writes = 0
    /\ totp_history = "never"
    /\ master_password = "-"

\* ------------------------------------------------- verify_master_password
\* A caller that went on after verify_master_password returned False.
verify_result_ignored(s) ==
    /\ verified' = [verified EXCEPT ![s] = "False"]
    /\ pc' = [pc EXCEPT ![s] = IF op[s] = "load_key" THEN "lk_salt" ELSE "gc_fetch"]
    /\ UNCHANGED out

\* verify_master_password returned False: load_key (line 145) and
\* get_credentials (line 185) raise ValueError at once.
VerifyFalse(s) ==
    /\ verified' = [verified EXCEPT ![s] = "False"]
    /\ Leave(s, InvalidMaster)

\* verify_master_password returned True: the caller goes on to its next store call.
after_verify(name) == IF name = "load_key" THEN "lk_salt" ELSE "gc_fetch"

VerifyTrue(s) ==
    /\ verified' = [verified EXCEPT ![s] = "True"]
    /\ Goto(s, after_verify(op[s]))
    /\ UNCHANGED out

\* What verify_master_password does when verify_2fa returned False (line 91).
on_2fa_failure_count == "inc_login_failure"

on_2fa_failure == "return False"

\* lines 71-79: read the lockout data, compare with the clock.
VerifyLockout(s) ==
    /\ pc[s] = "v_lock"
    /\ loc' = [loc EXCEPT ![s].fa0 = failed_attempts, ![s].lu0 = lockout_until,
                          ![s].t0 = now]
    /\ IF is_locked_out(now, lockout_until)
       THEN /\ printed' = [printed EXCEPT ![s] = "User is locked out"]
            /\ VerifyFalse(s)
       ELSE /\ Goto(s, "v_pass")
            /\ UNCHANGED <<printed, verified, out>>
    /\ UNCHANGED <<dbvars, now, op, mp, fer, closed, hash_checked, fail_writes, totp_history, master_password>>

\* An attempt for a user without a stored hash counted as a failure.
VerifyPasswordCountsUnknown(s) ==
    /\ pc[s] = "v_pass"
    /\ hash_checked' = [hash_checked EXCEPT ![s] = user_password # NoHash]
    /\ Goto(s, IF ph_verify(user_password, mp[s]) THEN "v_totp" ELSE "i_get")
    /\ UNCHANGED <<printed, verified, out>>
    /\ UNCHANGED <<dbvars, now, op, mp, loc, fer, closed, fail_writes, totp_history,
                   master_password>>

\* lines 81-86: read the stored hash and verify the password against it.
VerifyPassword(s) ==
    /\ pc[s] = "v_pass"
    /\ IF user_password = NoHash
       THEN /\ printed' = [printed EXCEPT ![s] = "Invalid username or password"]
            /\ VerifyFalse(s)
            /\ UNCHANGED hash_checked
       ELSE /\ hash_checked' = [hash_checked EXCEPT ![s] = TRUE]
            /\ Goto(s, IF ph_verify(user_password, mp[s]) THEN "v_totp" ELSE "i_get")
            /\ UNCHANGED <<printed, verified, out>>
    /\ UNCHANGED <<dbvars, now, op, mp, loc, fer, closed, fail_writes, totp_history, master_password>>

\* lines 88-89: is a TOTP secret enrolled?
VerifyTotpEnrolled(s) ==
    /\ pc[s] = "v_totp"
    /\ Goto(s, IF totp_enrolled(totp_secret) THEN "v_2fa" ELSE "v_reset")
    /\ UNCHANGED <<dbvars, now, op, mp, loc, fer, closed, out, verified, printed,
                   hash_checked, fail_writes, totp_history, master_password>>

\* lines 90-91 and verify_2fa (117-127): read the secret again, prompt for the code.
Verify2fa(s, code) ==
    /\ pc[s] = "v_2fa"
    /\ IF ~totp_enrolled(totp_secret)
       THEN /\ Goto(s, "v_reset")
            /\ UNCHANGED <<printed, verified, out, loc>>
       ELSE /\ loc' = [loc EXCEPT ![s].code = code]
            /\ IF totp_verify(totp_secret, code)
               THEN /\ Goto(s, "v_reset")
                    /\ UNCHANGED <<printed, verified, out>>
               ELSE /\ printed' = [printed EXCEPT ![s] = "Invalid 2FA code"]
                    /\ IF on_2fa_failure = "return False"
                       THEN VerifyFalse(s)
                       ELSE Goto(s, "i_get") /\ UNCHANGED <<verified, out>>
    /\ UNCHANGED <<dbvars, now, op, mp, fer, closed, hash_checked, fail_writes, totp_history, master_password>>

\* lines 93-94: every factor passed, reset the lockout data, return True.
VerifyReset(s) ==
    /\ pc[s] = "v_reset"
    /\ failed_attempts' = 0
    /\ lockout_until' = 0
    /\ fail_writes' = 0
    /\ VerifyTrue(s)
    /\ UNCHANGED <<credvars, rowvars, now, op, mp, loc, fer, closed, printed,
                   hash_checked, totp_history, master_password>>

\* inc_login_failure, lines 130-137: read the counter, compute the new tuple.
IncRead(s) ==
    /\ pc[s] = "i_get"
    /\ loc' = [loc EXCEPT ![s].fa = failed_attempts + 1,
                          ![s].ct = now,
                          ![s].lu = new_lockout_until(failed_attempts + 1, now)]
    /\ Goto(s, "i_set")
    /\ UNCHANGED <<dbvars, now, op, mp, fer, closed, out, verified, printed,
                   hash_checked, fail_writes, totp_history, master_password>>

\* A write that is started and not awaited: the call returns without it.
IncWriteNotAwaited(s) ==
    /\ pc[s] = "i_set"
    /\ printed' = [printed EXCEPT ![s] = "Error"]
    /\ VerifyFalse(s)
    /\ UNCHANGED <<dbvars, now, op, mp, loc, fer, closed, hash_checked, fail_writes,
                   totp_history, master_password>>

\* inc_login_failure, line 140, then lines 98-99: write the tuple, return False.
IncWrite(s) ==
    /\ pc[s] = "i_set"
    /\ failed_attempts' = loc[s].fa
    /\ lockout_until' = loc[s].lu
    /\ fail_writes' = fail_writes + 1
    /\ printed' = [printed EXCEPT ![s] = "Error"]
    /\ VerifyFalse(s)
    /\ UNCHANGED <<credvars, rowvars, now, op, mp, loc, fer, closed, hash_checked,
                   totp_history, master_password>>

\* lines 100-102: anything but a mismatch raised inside lines 71-94 (the store
\* failing, a stored hash argon2 cannot parse) is printed and turned into False.
VerifyStoreError(s) ==
    /\ pc[s] \in {"v_lock", "v_pass", "v_totp", "v_2fa", "v_reset"}
    /\ printed' = [printed EXCEPT ![s] = "Login failed"]
    /\ VerifyFalse(s)
    /\ UNCHANGED <<dbvars, now, op, mp, loc, fer, closed, hash_checked, fail_writes,
                   totp_history, master_password>>

\* The store failing inside inc_login_failure (which runs in the except clause
\* of line 96), at line 146 or at line 186: the exception leaves the method;
\* load_key prints "Error generating key" and raises it again (lines 160-162).
StoreRaises(s) ==
    /\ pc[s] \in {"i_get", "i_set", "lk_salt", "gc_fetch"}
    /\ printed' = [printed EXCEPT ![s] =
          IF op[s] = "load_key" THEN "Error generating key" ELSE @]
    /\ Leave(s, StoreError)
    /\ UNCHANGED <<dbvars, now, op, mp, loc, fer, closed, verified, hash_checked,
                   fail_writes, totp_history, master_password>>

\* ------------------------------------------------------------- load_key
\* line 144: load_key enters verify_master_password.
LoadKey(s, password) ==
    /\ CanBegin(s)
    /\ failed_attempts < MaxFailed
    /\ Enter(s, "load_key", password, "v_lock")
    /\ UNCHANGED <<dbvars, now, fer, closed, fail_writes, totp_history, master_password>>

\* lines 146-156: read the salt, derive the key, cache the cipher.
LoadKeySalt(s) ==
    /\ pc[s] = "lk_salt"
    /\ IF salt_missing(user_salt)
       THEN /\ Leave(s, SaltNotFound)
            /\ UNCHANGED fer
       ELSE /\ fer' = [fer EXCEPT ![s] = derive_key(mp[s], user_salt)]
            /\ Leave(s, RetNone)
    /\ UNCHANGED <<dbvars, now, op, mp, loc, closed, verified, printed, hash_checked,
                   fail_writes, totp_history, master_password>>

\* ------------------------------------------------------- create_account
\* lines 32-35: draw a salt, hash password and PIN, create the user row.
\* The username is the store's primary key: a second creation is refused.
CreateAccount(s, password, pin, salt) ==
    /\ CanBegin(s)
    /\ IF db_user_exists(user_password)
       THEN /\ Single(s, "create_account", StoreError)
            /\ UNCHANGED <<user_password, recovery_pin>>
       ELSE /\ user_password' = ph_hash(password)
            /\ recovery_pin' = ph_hash(pin)
            /\ Call(s, "create_account", "-", "ca_salt",
                    [NoLoc EXCEPT !.salt = salt], Pending)
    /\ UNCHANGED <<user_salt, totp_secret, failed_attempts, lockout_until, rowvars,
                   now, fer, closed, fail_writes, totp_history, master_password>>

\* line 36: store the salt.
CreateAccountSalt(s) ==
    /\ pc[s] = "ca_salt"
    /\ user_salt' = loc[s].salt
    /\ Leave(s, RetNone)
    /\ UNCHANGED <<user_password, recovery_pin, totp_secret, failed_attempts,
                   lockout_until, rowvars, now, op, mp, loc, fer, closed, verified,
                   printed, hash_checked, fail_writes, totp_history, master_password>>

\* ------------------------------------------------ reset_master_password
\* A reset that also clears the lockout data.
ResetClearsLockout(s, new_password) ==
    /\ CanBegin(s)
    /\ user_password' = db_update_master_password(user_password, ph_hash(new_password))
    /\ failed_attempts' = 0
    /\ lockout_until' = 0
    /\ Enter(s, "reset_master_password", new_password, "r_salt")
    /\ UNCHANGED <<recovery_pin, user_salt, totp_secret, rowvars, now, fer, closed,
                   fail_writes, totp_history, master_password>>

\* lines 53-54: hash the new password and update the user row (a user row
\* that does not exist is not created by an update).
ResetMasterPassword(s, new_password) ==
    /\ CanBegin(s)
    /\ user_password' = db_update_master_password(user_password, ph_hash(new_password))
    /\ Enter(s, "reset_master_password", new_password, "r_salt")
    /\ UNCHANGED <<recovery_pin, user_salt, totp_secret, failed_attempts,
                   lockout_until, rowvars, now, fer, closed, fail_writes, totp_history, master_password>>

\* lines 55-57 (and 60-67 when a salt is on record): read the salt; with none
\* on record draw a fresh one, otherwise derive and cache the key.
ResetSalt(s, fresh) ==
    /\ pc[s] = "r_salt"
    /\ IF salt_missing(user_salt)
       THEN /\ loc' = [loc EXCEPT ![s].salt = fresh]
            /\ Goto(s, "r_store")
            /\ UNCHANGED <<fer, out>>
       ELSE /\ loc' = [loc EXCEPT ![s].salt = user_salt]
            /\ fer' = [fer EXCEPT ![s] = derive_key(mp[s], user_salt)]
            /\ Leave(s, RetNone)
    /\ UNCHANGED <<dbvars, now, op, mp, closed, verified, printed, hash_checked,
                   fail_writes, totp_history, master_password>>

\* lines 58-67: store the fresh salt, derive and cache the key.
ResetStoreSalt(s) ==
    /\ pc[s] = "r_store"
    /\ user_salt' = loc[s].salt
    /\ fer' = [fer EXCEPT ![s] = derive_key(mp[s], loc[s].salt)]
    /\ Leave(s, RetNone)
    /\ UNCHANGED <<user_password, recovery_pin, totp_secret, failed_attempts,
                   lockout_until, rowvars, now, op, mp, loc, closed, verified,
                   printed, hash_checked, fail_writes, totp_history, master_password>>

\* ------------------------------------------------------------ second factor
\* lines 105-106
Enable2fa(s, secret) ==
    /\ CanBegin(s)
    /\ totp_secret' = secret
    /\ totp_history' = "enabled"
    /\ Single(s, "enable_2fa", RetNone)
    /\ UNCHANGED <<user_password, recovery_pin, user_salt, failed_attempts,
                   lockout_until, rowvars, now, fer, closed, fail_writes,
                   master_password>>

\* line 114
Disable2fa(s) ==
    /\ CanBegin(s)
    /\ totp_secret' = NoTotp
    /\ totp_history' = IF totp_history = "never" THEN "never" ELSE "disabled"
    /\ Single(s, "disable_2fa", RetNone)
    /\ UNCHANGED <<user_password, recovery_pin, user_salt, failed_attempts,
                   lockout_until, rowvars, now, fer, closed, fail_writes,
                   master_password>>

\* ------------------------------------------------------- site credentials
GeneratedPasswords == {"Xy7#generated"}
PasswordInputs == Fields \cup {"gen"}

\* lines 166-173: "0" means empty, "gen" asks for a generated password.
credential_username(username) == zero_to_empty(username)
credential_password(password, generated) ==
    zero_to_empty(IF strip_lower(password) = "gen" THEN generated ELSE password)

\* lines 164-181: any exception, a missing cipher included, is caught.
AddCredentials(s, username, password, generated) ==
    /\ CanBegin(s)
    /\ IF fer[s] = NoKey
       THEN /\ Call(s, "add_credentials", "-", "idle",
                    ArgsFrame(<<username, password>>), RetFalse)
            /\ UNCHANGED site_row
       ELSE /\ site_row' = <<fer_encrypt(fer[s], credential_username(username)),
                             fer_encrypt(fer[s], credential_password(password, generated))>>
            /\ Call(s, "add_credentials", "-", "idle",
                    ArgsFrame(<<username, password>>), RetTrue)
    /\ UNCHANGED <<credvars, failed_attempts, lockout_until, wallet_row, doc_row,
                   now, fer, closed, fail_writes, totp_history, master_password>>

\* line 184: get_credentials enters verify_master_password.
GetCredentials(s, password) ==
    /\ CanBegin(s)
    /\ failed_attempts < MaxFailed
    /\ Enter(s, "get_credentials", password, "v_lock")
    /\ UNCHANGED <<dbvars, now, fer, closed, fail_writes, totp_history, master_password>>

\* lines 186-194: fetch the row and decrypt both fields.
site_result(key, row) ==
    IF row = NoRow THEN RetNone
    ELSE IF key = NoKey THEN AttributeError
    ELSE IF InvalidToken \in {fer_decrypt(key, row[1]), fer_decrypt(key, row[2])}
    THEN TokenError
    ELSE R("dict", <<or_default(fer_decrypt(key, row[1]), "No username"),
                     or_default(fer_decrypt(key, row[2]), "No password")>>)

GetCredentialsFetch(s) ==
    /\ pc[s] = "gc_fetch"
    /\ Leave(s, site_result(fer[s], site_row))
    /\ UNCHANGED <<dbvars, now, op, mp, loc, fer, closed, verified, printed,
                   hash_checked, fail_writes, totp_history, master_password>>

\* ---------------------------------------------------------------- wallets
\* verify_recovery_pin, lines 43-50
pin_always_accepted(stored_pin, pin) == TRUE

pin_accepted_when_none_stored(stored_pin, pin) ==
    stored_pin = NoHash \/ ph_verify(stored_pin, pin)

verify_recovery_pin(stored_pin, pin) ==
    IF stored_pin = NoHash THEN FALSE ELSE ph_verify(stored_pin, pin)

\* A direct call of verify_recovery_pin (main, lines 512 and 631).
VerifyRecoveryPin(s, pin) ==
    /\ CanBegin(s)
    /\ Call(s, "verify_recovery_pin", "-", "idle", PinFrame(pin),
            IF verify_recovery_pin(recovery_pin, pin) THEN RetTrue ELSE RetFalse)
    /\ UNCHANGED <<dbvars, now, fer, closed, fail_writes, totp_history, master_password>>

\* lines 234-237
DeleteAllData(s, pin) ==
    /\ CanBegin(s)
    /\ IF ~verify_recovery_pin(recovery_pin, pin)
       THEN /\ Call(s, "delete_all_data", "-", "idle", PinFrame(pin), InvalidPin)
            /\ UNCHANGED rowvars
       ELSE /\ site_row' = db_delete_user_data(site_row)
            /\ wallet_row' = db_delete_user_data(wallet_row)
            /\ doc_row' = db_delete_user_data(doc_row)
            /\ Call(s, "delete_all_data", "-", "idle", PinFrame(pin), RetNone)
    /\ UNCHANGED <<credvars, failed_attempts, lockout_until, now, fer, closed,
                   fail_writes, totp_history, master_password>>

\* lines 197-212: PIN gate, normalisation, encryption of the three fields.
AddWallet(s, username, password, recovery_phrase, pin, generated) ==
    /\ CanBegin(s)
    /\ LET frame == [NoLoc EXCEPT !.pin = pin,
                                   !.args = <<username, password, recovery_phrase>>]
       IN  IF ~verify_recovery_pin(recovery_pin, pin)
           THEN Call(s, "add_wallet", "-", "idle", frame, InvalidPin)
           ELSE IF fer[s] = NoKey
           THEN Call(s, "add_wallet", "-", "idle", frame, AttributeError)
           ELSE Call(s, "add_wallet", "-", "aw_store",
                     [frame EXCEPT !.row =
                         <<fer_encrypt(fer[s], credential_username(username)),
                           fer_encrypt(fer[s], credential_password(password, generated)),
                           fer_encrypt(fer[s], zero_to_empty(recovery_phrase))>>],
                     Pending)
    /\ UNCHANGED <<dbvars, now, fer, closed, fail_writes, totp_history, master_password>>

\* lines 213-214
AddWalletStore(s) ==
    /\ pc[s] = "aw_store"
    /\ wallet_row' = loc[s].row
    /\ Leave(s, RetNone)
    /\ UNCHANGED <<credvars, failed_attempts, lockout_until, site_row, doc_row, now,
                   op, mp, loc, fer, closed, verified, printed, hash_checked,
                   fail_writes, totp_history, master_password>>

\* lines 217-218
GetWallet(s, pin) ==
    /\ CanBegin(s)
    /\ IF ~verify_recovery_pin(recovery_pin, pin)
       THEN Call(s, "get_wallet", "-", "idle", PinFrame(pin), InvalidPin)
       ELSE Call(s, "get_wallet", "-", "gw_fetch", PinFrame(pin), Pending)
    /\ UNCHANGED <<dbvars, now, fer, closed, fail_writes, totp_history, master_password>>

\* lines 219-232: any exception while decrypting is printed, and None returned.
wallet_fails(key, row) ==
    \/ key = NoKey
    \/ InvalidToken \in {fer_decrypt(key, row[1]), fer_decrypt(key, row[2]),
                         fer_decrypt(key, row[3])}

wallet_result(key, row) ==
    IF row = NoRow \/ wallet_fails(key, row) THEN RetNone
    ELSE R("dict", <<or_default(fer_decrypt(key, row[1]), "No username"),
                     or_default(fer_decrypt(key, row[2]), "No password"),
                     or_default(fer_decrypt(key, row[3]), "No recovery phrase")>>)

GetWalletFetch(s) ==
    /\ pc[s] = "gw_fetch"
    /\ printed' = [printed EXCEPT ![s] =
          IF wallet_row # NoRow /\ wallet_fails(fer[s], wallet_row)
          THEN "Error: decrypt" ELSE @]
    /\ Leave(s, wallet_result(fer[s], wallet_row))
    /\ UNCHANGED <<dbvars, now, op, mp, loc, fer, closed, verified, hash_checked,
                   fail_writes, totp_history, master_password>>

\* -------------------------------------------------------------- documents
DocName == "doc"

\* lines 239-241: no try, a missing cipher raises.
AddSecureDoc(s, contents) ==
    /\ CanBegin(s)
    /\ IF fer[s] = NoKey
       THEN /\ Call(s, "add_secure_doc", "-", "idle", ArgsFrame(<<contents>>),
                    AttributeError)
            /\ UNCHANGED doc_row
       ELSE /\ doc_row' = <<DocName, fer_encrypt(fer[s], contents)>>
            /\ Call(s, "add_secure_doc", "-", "idle", ArgsFrame(<<contents>>), RetNone)
    /\ UNCHANGED <<credvars, failed_attempts, lockout_until, site_row, wallet_row,
                   now, fer, closed, fail_writes, totp_history, master_password>>

\* lines 243-254: any exception while decrypting is printed, and None returned.
doc_fails(key, row) == key = NoKey \/ fer_decrypt(key, row[2]) = InvalidToken

doc_result(key, row) ==
    IF row = NoRow \/ doc_fails(key, row) THEN RetNone
    ELSE R("dict", <<DocName, fer_decrypt(key, row[2])>>)

GetSecureDoc(s) ==
    /\ CanBegin(s)
    /\ op' = [op EXCEPT ![s] = "get_secure_doc"]
    /\ out' = [out EXCEPT ![s] = doc_result(fer[s], doc_row)]
    /\ printed' = [printed EXCEPT ![s] =
          IF doc_row # NoRow /\ doc_fails(fer[s], doc_row)
          THEN "Decryption error" ELSE "none"]
    /\ mp' = [mp EXCEPT ![s] = "-"]
    /\ loc' = [loc EXCEPT ![s] = NoLoc]
    /\ verified' = [verified EXCEPT ![s] = "none"]
    /\ hash_checked' = [hash_checked EXCEPT ![s] = FALSE]
    /\ UNCHANGED <<dbvars, now, pc, fer, closed, fail_writes, totp_history, master_password>>

\* lines 268-270: update_doc changes the row only when there is one.
UpdateSecureDoc(s, contents) ==
    /\ CanBegin(s)
    /\ IF fer[s] = NoKey
       THEN /\ Call(s, "update_secure_doc", "-", "idle", ArgsFrame(<<contents>>),
                    AttributeError)
            /\ UNCHANGED doc_row
       ELSE /\ doc_row' = db_update_doc(doc_row,
                                        <<DocName, fer_encrypt(fer[s], contents)>>)
            /\ Call(s, "update_secure_doc", "-", "idle", ArgsFrame(<<contents>>),
                    RetNone)
    /\ UNCHANGED <<credvars, failed_attempts, lockout_until, site_row, wallet_row,
                   now, fer, closed, fail_writes, totp_history, master_password>>

\* lines 272-273: no cipher is involved.
DeleteSecureDoc(s) ==
    /\ CanBegin(s)
    /\ doc_row' = NoRow
    /\ Single(s, "delete_secure_doc", RetNone)
    /\ UNCHANGED <<credvars, failed_attempts, lockout_until, site_row, wallet_row,
                   now, fer, closed, fail_writes, totp_history, master_password>>

\* ---------------------------------------------------------------- close
\* lines 275-279: close the store connection, swallowing any error.
Close(s) ==
    /\ Idle(s)
    /\ closed' = [closed EXCEPT ![s] = TRUE]
    /\ Single(s, "close", RetNone)
    /\ UNCHANGED <<dbvars, now, fer, fail_writes, totp_history, master_password>>

\* ------------------------------------------------------------------ main
\* The interactive session of main for one login: the manager object is
\* made at the login prompt and used until logout.
LoggedIn(s) == Idle(s) /\ ~closed[s] /\ fer[s] # NoKey

\* lines 309-315: the typed password is kept in main's master_password and
\* handed to load_key of a new manager object.
MainLogin(s, password) ==
    /\ CanBegin(s)
    /\ fer[s] = NoKey
    /\ failed_attempts < MaxFailed
    /\ master_password' = password
    /\ Enter(s, "load_key", password, "v_lock")
    /\ UNCHANGED <<dbvars, now, fer, closed, fail_writes, totp_history>>

\* lines 413: Add Credentials
MainAddCredentials(s, username, password, generated) ==
    /\ LoggedIn(s)
    /\ AddCredentials(s, username, password, generated)

\* lines 419-432: View Credentials passes main's master_password.
MainViewCredentials(s) ==
    /\ LoggedIn(s)
    /\ GetCredentials(s, master_password)

\* lines 508-514: Account Settings asks for the recovery PIN.
MainSettings(s, pin) ==
    /\ LoggedIn(s)
    /\ VerifyRecoveryPin(s, pin)

\* lines 524-536: Change Master Password, in the settings menu the PIN opened;
\* main's master_password is not assigned.
MainChangePassword(s, new_password) ==
    /\ LoggedIn(s)
    /\ op[s] = "verify_recovery_pin" /\ out[s] = RetTrue
    /\ ResetMasterPassword(s, new_password)

\* ----------------------------------------------------------------- clock
\* Time passes: to the last second of a lockout, or to its end.
Tick(t) ==
    /\ t \in {lockout_until - 1, lockout_until}
    /\ t > now
    /\ t <= MaxNow
    /\ now' = t
    /\ UNCHANGED <<dbvars, sessvars, fail_writes, totp_history, master_password>>

\* ------------------------------------------------------------ specification
\* Steps inside verify_master_password and inc_login_failure.
VerifySteps(s) ==
    \/ VerifyLockout(s)
    \/ VerifyPassword(s)
    \/ VerifyTotpEnrolled(s)
    \/ VerifyReset(s)
    \/ IncRead(s)
    \/ IncWrite(s)

\* One manager object: accounts, logins, second factor, password resets, and
\* the clock.
Next ==
    \/ \E p \in NewPasswords, n \in NewPins, x \in NewSalts : CreateAccount("s1", p, n, x)
    \/ CreateAccountSalt("s1")
    \/ \E p \in Passwords : LoadKey("s1", p)
    \/ \E p \in Passwords : GetCredentials("s1", p)
    \/ \E t \in TotpSecrets : Enable2fa("s1", t)
    \/ Disable2fa("s1")
    \/ VerifySteps("s1")
    \/ \E c \in Codes : Verify2fa("s1", c)
    \/ LoadKeySalt("s1")
    \/ GetCredentialsFetch("s1")
    \/ \E p \in Passwords : ResetMasterPassword("s1", p)
    \/ \E x \in Salts : ResetSalt("s1", x)
    \/ ResetStoreSalt("s1")
    \/ \E n \in Pins : VerifyRecoveryPin("s1", n)
    \/ \E t \in 0..MaxNow : Tick(t)

Spec == Init /\ [][Next]_vars

\* One manager object: accounts, logins, password resets and the records.
NextVault ==
    \/ \E p \in NewPasswords, n \in NewPins, x \in NewSalts : CreateAccount("s1", p, n, x)
    \/ CreateAccountSalt("s1")
    \/ \E p \in Passwords : LoadKey("s1", p)
    \/ \E p \in Passwords : GetCredentials("s1", p)
    \/ VerifySteps("s1")
    \/ LoadKeySalt("s1")
    \/ GetCredentialsFetch("s1")
    \/ \E p \in Passwords : ResetMasterPassword("s1", p)
    \/ \E x \in Salts : ResetSalt("s1", x)
    \/ ResetStoreSalt("s1")
    \/ \E f \in SiteInputs, g \in GeneratedPasswords :
          AddCredentials("s1", f[1], f[2], g)
    \/ \E f \in WalletInputs, n \in Pins, g \in GeneratedPasswords :
          AddWallet("s1", f[1], f[2], f[3], n, g)
    \/ AddWalletStore("s1")
    \/ \E n \in Pins : GetWallet("s1", n)
    \/ GetWalletFetch("s1")
    \/ \E c \in Fields : AddSecureDoc("s1", c)
    \/ GetSecureDoc("s1")
    \/ \E c \in Fields : UpdateSecureDoc("s1", c)
    \/ DeleteSecureDoc("s1")
    \/ \E n \in Pins : DeleteAllData("s1", n)
    \/ Close("s1")

SpecVault == Init /\ [][NextVault]_vars

\* Two manager objects for the same username, interleaving at the store calls.
NextConc ==
    \E s \in Sessions :
        \/ \E p \in NewPasswords, n \in NewPins, x \in NewSalts : CreateAccount(s, p, n, x)
        \/ CreateAccountSalt(s)
        \/ \E p \in Passwords : LoadKey(s, p)
        \/ VerifySteps(s)
        \/ LoadKeySalt(s)

SpecConc == Init /\ [][NextConc]_vars

\* Two manager objects for the same username, of which only the first ever
\* logs in; both call the record operations.  Every password given is the
\* right one, so inc_login_failure is never entered here.
NextGuest ==
    \/ \E p \in NewPasswords, n \in NewPins, x \in NewSalts : CreateAccount("s1", p, n, x)
    \/ CreateAccountSalt("s1")
    \/ \E p \in NewPasswords : LoadKey("s1", p)
    \/ LoadKeySalt("s1")
    \/ \E s \in Sessions :
          \/ VerifyLockout(s)
          \/ VerifyPassword(s)
          \/ VerifyTotpEnrolled(s)
          \/ VerifyReset(s)
          \/ \E f \in SiteInputs, g \in GeneratedPasswords :
                AddCredentials(s, f[1], f[2], g)
          \/ \E p \in NewPasswords : GetCredentials(s, p)
          \/ GetCredentialsFetch(s)
          \/ \E f \in WalletInputs, n \in Pins, g \in GeneratedPasswords :
                AddWallet(s, f[1], f[2], f[3], n, g)
          \/ AddWalletStore(s)
          \/ \E n \in Pins : GetWallet(s, n)
          \/ GetWalletFetch(s)
          \/ \E c \in Fields : AddSecureDoc(s, c)
          \/ GetSecureDoc(s)
          \/ \E c \in Fields : UpdateSecureDoc(s, c)
          \/ DeleteSecureDoc(s)

SpecGuest == Init /\ [][NextGuest]_vars

\* One manager object logging in against a store whose calls may fail.
NextFaulty ==
    \/ \E p \in NewPasswords, n \in NewPins, x \in NewSalts : CreateAccount("s1", p, n, x)
    \/ CreateAccountSalt("s1")
    \/ \E p \in Passwords : LoadKey("s1", p)
    \/ \E p \in Passwords : GetCredentials("s1", p)
    \/ \E t \in TotpSecrets : Enable2fa("s1", t)
    \/ Disable2fa("s1")
    \/ VerifySteps("s1")
    \/ \E c \in Codes : Verify2fa("s1", c)
    \/ LoadKeySalt("s1")
    \/ GetCredentialsFetch("s1")
    \/ VerifyStoreError("s1")
    \/ StoreRaises("s1")

SpecFaulty == Init /\ [][NextFaulty]_vars

\* The interactive flow of main: register, log in, add and view site
\* credentials, change the master password in the account settings.
NextMain ==
    \/ \E p \in NewPasswords, n \in NewPins, x \in NewSalts : CreateAccount("s1", p, n, x)
    \/ CreateAccountSalt("s1")
    \/ \E p \in Passwords : MainLogin("s1", p)
    \/ VerifySteps("s1")
    \/ LoadKeySalt("s1")
    \/ \E f \in SiteInputs, g \in GeneratedPasswords :
          MainAddCredentials("s1", f[1], f[2], g)
    \/ MainViewCredentials("s1")
    \/ GetCredentialsFetch("s1")
    \/ \E n \in Pins : MainSettings("s1", n)
    \/ \E p \in Passwords : MainChangePassword("s1", p)
    \/ \E x \in Salts : ResetSalt("s1", x)

SpecMain == Init /\ [][NextMain]_vars

\* One manager object: logins, second factor, stored records, and the
\* PIN-gated password reset of Recover Account (main, lines 629-642).
NextRecover ==
    \/ \E p \in NewPasswords, n \in NewPins, x \in NewSalts : CreateAccount("s1", p, n, x)
    \/ CreateAccountSalt("s1")
    \/ \E p \in Passwords : LoadKey("s1", p)
    \/ VerifySteps("s1")
    \/ \E c \in Codes : Verify2fa("s1", c)
    \/ LoadKeySalt("s1")
    \/ \E t \in TotpSecrets : Enable2fa("s1", t)
    \/ \E f \in SiteInputs, g \in GeneratedPasswords :
          AddCredentials("s1", f[1], f[2], g)
    \/ \E c \in Fields : AddSecureDoc("s1", c)
    \/ \E n \in Pins : VerifyRecoveryPin("s1", n)
    \/ \E p \in Passwords : ResetMasterPassword("s1", p)
    \/ \E x \in Salts : ResetSalt("s1", x)
    \/ ResetStoreSalt("s1")

SpecRecover == Init /\ [][NextRecover]_vars

\* ------------------------------------------------------------------ claims
\* A call of load_key or get_credentials that has got an answer from
\* verify_master_password.
Verifying(s) == op[s] \in {"load_key", "get_credentials"} /\ verified[s] # "none"

\* C1: an attempt that read a lockout_until greater than the clock is denied,
\* whatever the password, the correct one included: verify_master_password
\* returns False, load_key and get_credentials raise "Invalid master password",
\* and the stored hash was never verified.
C1_LockedOutDenied ==
    \A s \in Sessions :
        (op[s] \in {"load_key", "get_credentials"} /\ pc[s] # "v_lock"
            /\ loc[s].t0 < loc[s].lu0)
        => /\ pc[s] = "idle"
           /\ verified[s] = "False"
           /\ out[s] = InvalidMaster
           /\ ~hash_checked[s]

C1_Witness ==
    /\ pc["s1"] = "idle" /\ op["s1"] = "load_key"
    /\ loc["s1"].t0 < loc["s1"].lu0
    /\ user_password = <<"argon2", mp["s1"]>>
    /\ out["s1"] = InvalidMaster

\* C2: an attempt that ended in a password mismatch has stored
\* failed_attempts = old + 1, old being the counter the attempt found, and
\* lockout_until = current_time + 3 * 2^(n-5) minutes when the new count n is
\* at least 5 (0 below 5); an expired lockout does not clear the counter, so
\* the next failure doubles the window.
C2_MismatchCounts ==
    \A s \in Sessions :
        (pc[s] = "idle" /\ printed[s] = "Error")
        => /\ hash_checked[s]
           /\ failed_attempts = loc[s].fa0 + 1
           /\ loc[s].t0 <= loc[s].ct /\ loc[s].ct <= now
           /\ lockout_until =
                 IF failed_attempts >= 5
                 THEN loc[s].ct + 3 * (2 ^ (failed_attempts - 5)) * 60
                 ELSE 0

C2_Witness ==
    /\ pc["s1"] = "idle" /\ printed["s1"] = "Error"
    /\ loc["s1"].lu0 > 0
    /\ failed_attempts = 7
    /\ lockout_until = loc["s1"].ct + 720

\* C3: an attempt resets the lockout data to (0, 0) exactly when every
\* required factor succeeded: the password verifies against the stored hash
\* and, with a TOTP secret enrolled, the typed code is the valid one.  A
\* correct password with an invalid code leaves the counters as they were.
C3_ResetIffAllFactors ==
    \A s \in Sessions :
        (pc[s] = "idle" /\ Verifying(s))
        => LET password_ok == hash_checked[s] /\ user_password = <<"argon2", mp[s]>>
               code_ok == totp_secret # "" => loc[s].code = totp_secret
           IN  /\ verified[s] = "True" <=> (password_ok /\ code_ok)
               /\ verified[s] = "True" => failed_attempts = 0 /\ lockout_until = 0
               /\ verified[s] = "False" =>
                     /\ failed_attempts >= loc[s].fa0
                     /\ failed_attempts = loc[s].fa0 => lockout_until = loc[s].lu0

C3_Witness ==
    /\ pc["s1"] = "idle" /\ op["s1"] = "load_key"
    /\ hash_checked["s1"] /\ user_password = <<"argon2", mp["s1"]>>
    /\ totp_secret # "" /\ loc["s1"].code # totp_secret
    /\ verified["s1"] = "False"
    /\ failed_attempts > 0

\* An attempt that has returned after the password verified and the code
\* typed for the enrolled secret did not.
SecondFactorFailed(s) ==
    /\ pc[s] = "idle" /\ Verifying(s)
    /\ hash_checked[s] /\ user_password = <<"argon2", mp[s]>>
    /\ totp_secret # "" /\ loc[s].code \notin {"-", totp_secret}

FieldOperations ==
    {"add_credentials", "get_credentials", "add_wallet", "get_wallet",
     "add_secure_doc", "get_secure_doc", "update_secure_doc", "delete_secure_doc"}

\* C5 as claimed: a record operation that a manager object without a cached
\* key has just completed has left the stored records as they were.
C5_NoKeyNoFieldOperation ==
    [][\A s \in Sessions :
          (/\ fer[s] = NoKey
           /\ <<pc[s], op[s], out[s]>> # <<pc'[s], op'[s], out'[s]>>
           /\ pc'[s] = "idle" /\ op'[s] \in FieldOperations)
          => rowvars' = rowvars]_vars

\* C6 as claimed: a closed manager object holds no key.
C6_ClosedHoldsNoKey ==
    \A s \in Sessions : closed[s] => fer[s] = NoKey

\* C7 as claimed: when no attempt is in progress, failed_attempts is not
\* below the number of failed attempts that have returned since the last
\* reset of the lockout data, parallel attempts included.
C7_NoUnderCount ==
    (\A s \in Sessions : pc[s] = "idle") => failed_attempts >= fail_writes

\* C8: a stored salt is never replaced.  With a salt on record, and no
\* create_account or reset_master_password still on its way to the store with
\* a salt drawn while none was on record, no step of a login, a password
\* reset, a 2FA operation or get_credentials changes user_salt; and
\* reset_master_password draws a salt only when it read none.
C8_SaltNeverRegenerated ==
    [][/\ (user_salt # NoSalt /\ \A s \in Sessions : pc[s] \notin {"ca_salt", "r_store"})
             => user_salt' = user_salt
       /\ \A s \in Sessions :
             (pc[s] = "r_salt" /\ pc'[s] # "r_salt")
             => IF user_salt = NoSalt
                THEN pc'[s] = "r_store" /\ loc'[s].salt \in Salts
                ELSE pc'[s] = "idle" /\ loc'[s].salt = user_salt]_vars

C8_Witness ==
    /\ pc["s1"] = "idle" /\ op["s1"] = "reset_master_password"
    /\ out["s1"] = RetNone
    /\ user_password = <<"argon2", "pwB">>
    /\ user_salt = "saltX"
    /\ fer["s1"] = <<"key", "pwB", "saltX">>

\* C9 as claimed: a load_key whose password (and second factor) verified ends
\* with a salt on record and a key cached, never with an error.
C9_MissingSaltSelfHeals ==
    \A s \in Sessions :
        (pc[s] = "idle" /\ op[s] = "load_key" /\ verified[s] = "True")
        => /\ out[s] = RetNone
           /\ user_salt # NoSalt
           /\ fer[s] # NoKey

\* A retrieval that has returned, from a manager object whose cached key is
\* not the key the stored record was encrypted with.
ForeignRecord(s, name, row) ==
    /\ pc[s] = "idle" /\ op[s] = name
    /\ fer[s] # NoKey
    /\ row # NoRow /\ row[LET n == Len(row) IN n][2] # fer[s]

\* C10: once the cached key differs from the key a record was stored under
\* (reset_master_password changed it), get_credentials, past the password
\* check, raises the decryption error, and get_wallet, past the PIN check, and
\* get_secure_doc report it and return None;
\* none of them returns a plaintext.  No step of reset_master_password
\* changes a stored record.
C10_OrphanedRecordsFailClosed ==
    [][/\ (\E s \in Sessions : op'[s] = "reset_master_password"
              /\ <<pc[s], op[s], out[s]>> # <<pc'[s], op'[s], out'[s]>>)
          => rowvars' = rowvars
       /\ \A s \in Sessions :
          /\ (ForeignRecord(s, "get_credentials", site_row)' /\ verified'[s] = "True")
                => out'[s] = TokenError
          /\ (ForeignRecord(s, "get_wallet", wallet_row)' /\ out'[s] # InvalidPin)
                => out'[s] = RetNone /\ printed'[s] = "Error: decrypt"
          /\ ForeignRecord(s, "get_secure_doc", doc_row)'
                => out'[s] = RetNone /\ printed'[s] = "Decryption error"]_vars

C10_Witness ==
    /\ ForeignRecord("s1", "get_credentials", site_row)
    /\ verified["s1"] = "True"
    /\ out["s1"] = TokenError
    /\ user_password = <<"argon2", "pwB">>
    /\ site_row[1] = <<"token", <<"key", "pwA", "saltX">>, "alice">>
    /\ fer["s1"] = <<"key", "pwB", "saltX">>

\* A step in which session s makes or advances a call.
Acts(s) == <<pc[s], op[s], out[s], loc[s]>> # <<pc'[s], op'[s], out'[s], loc'[s]>>

\* C11: verify_recovery_pin does not pass through the lockout: a call of it
\* leaves failed_attempts and lockout_until as they were, and returns True
\* exactly when the PIN verifies against the stored PIN hash, whether or not
\* the account is locked and whatever PINs were tried before.
C11_PinIgnoresLockout ==
    [][\A s \in Sessions :
          (Acts(s) /\ op'[s] = "verify_recovery_pin")
          => /\ <<failed_attempts', lockout_until'>> = <<failed_attempts, lockout_until>>
             /\ out'[s] \in {RetTrue, RetFalse}
             /\ out'[s] = RetTrue <=> recovery_pin = <<"argon2", loc'[s].pin>>]_vars

C11_Witness ==
    /\ op["s1"] = "verify_recovery_pin" /\ out["s1"] = RetTrue
    /\ recovery_pin = <<"argon2", loc["s1"].pin>>
    /\ failed_attempts >= 5 /\ now < lockout_until

\* C12: an attempt that did not get True from verify_master_password (locked
\* out, wrong password, no stored hash, invalid 2FA code, an error of the
\* store) ends in an exception for the caller and caches no key: the only step
\* that sets the key is the one of load_key after verify_master_password
\* returned True, and it sets the key derived from the password given.
C12_FailureNeverAuthenticates ==
    [][\A s \in Sessions :
          /\ fer'[s] # fer[s]
                => /\ op[s] = "load_key" /\ verified[s] = "True"
                   /\ fer'[s] = <<"key", mp[s], user_salt>>
          /\ (Acts(s) /\ pc'[s] = "idle" /\ op'[s] \in {"load_key", "get_credentials"}
                /\ verified'[s] # "True")
                => /\ out'[s].kind \in {"ValueError", "StoreError"}
                   /\ fer'[s] = fer[s]]_vars

C12_Witness ==
    /\ pc["s1"] = "idle" /\ op["s1"] = "load_key"
    /\ printed["s1"] = "Login failed"
    /\ hash_checked["s1"] /\ user_password = <<"argon2", mp["s1"]>>
    /\ verified["s1"] = "False" /\ out["s1"] = InvalidMaster
    /\ fer["s1"] = NoKey

\* C13: whether a code is required is decided by the enrolment state alone.
\* A load_key whose password verified returns True from the password check
\* without asking for a code when no TOTP secret is stored, never enrolled or
\* disabled again alike; with a secret stored it is asked for a code, fails on
\* an invalid one and succeeds on the valid one.
C13_EnrollmentDecides ==
    \A s \in Sessions :
        (/\ pc[s] = "idle" /\ op[s] = "load_key"
         /\ hash_checked[s] /\ user_password = <<"argon2", mp[s]>>)
        => IF totp_secret = ""
           THEN /\ totp_history \in {"never", "disabled"}
                /\ loc[s].code = "-"
                /\ verified[s] = "True"
           ELSE /\ totp_history = "enabled"
                /\ loc[s].code # "-"
                /\ verified[s] = "True" <=> loc[s].code = totp_secret
                /\ verified[s] = "False" => out[s] = InvalidMaster

C13_Witness ==
    /\ totp_history = "disabled" /\ totp_secret = ""
    /\ pc["s1"] = "idle" /\ op["s1"] = "load_key"
    /\ verified["s1"] = "True" /\ loc["s1"].code = "-"
    /\ out["s1"] = RetNone /\ fer["s1"] = <<"key", "pwA", "saltX">>

\* C14: a created account starts with no failures and no lockout; while fewer
\* than five failures are on record there is no lockout and the right
\* password (no TOTP enrolled) is accepted; the mismatch that finds four
\* failures on record stores the fifth and locks until 180 seconds after the
\* time it read.
C14_FifthFailureLocks ==
    /\ failed_attempts < 5 => lockout_until = 0
    /\ \A s \in Sessions :
          /\ (pc[s] = "idle" /\ op[s] = "create_account" /\ out[s] = RetNone)
                => failed_attempts = 0 /\ lockout_until = 0
          /\ (/\ pc[s] = "idle" /\ Verifying(s) /\ loc[s].fa0 <= 4
               /\ user_password = <<"argon2", mp[s]>> /\ totp_secret = "")
                => verified[s] = "True" /\ failed_attempts = 0
          /\ (pc[s] = "idle" /\ printed[s] = "Error" /\ loc[s].fa0 = 4)
                => /\ failed_attempts = 5
                   /\ loc[s].lu0 = 0
                   /\ lockout_until = loc[s].ct + 180

C14_Witness ==
    /\ pc["s1"] = "idle" /\ op["s1"] = "load_key" /\ printed["s1"] = "Error"
    /\ loc["s1"].fa0 = 4 /\ loc["s1"].lu0 = 0
    /\ failed_attempts = 5 /\ lockout_until = 180 /\ now = 0

\* C15: the step in which an attempt returns failure for a password mismatch
\* is the step that writes the lockout data: as the call returns, the store
\* holds the incremented counter and the lockout time the attempt computed,
\* and an attempt that reads the lockout data afterwards reads what the store
\* holds.
C15_FailurePersistedAtReturn ==
    [][\A s \in Sessions :
          /\ (/\ pc[s] # "idle" /\ pc'[s] = "idle"
              /\ op[s] \in {"load_key", "get_credentials"}
              /\ hash_checked[s] /\ user_password # <<"argon2", mp[s]>>)
                => /\ verified'[s] = "False" /\ out'[s] = InvalidMaster
                   /\ failed_attempts' = loc[s].fa /\ loc[s].fa >= 1
                   /\ lockout_until' = loc[s].lu
          /\ (pc[s] = "v_lock" /\ pc'[s] # "v_lock")
                => loc'[s].fa0 = failed_attempts /\ loc'[s].lu0 = lockout_until]_vars

C15_Witness ==
    /\ pc["s1"] = "idle" /\ printed["s1"] = "Error" /\ verified["s1"] = "False"
    /\ failed_attempts = loc["s1"].fa
    /\ pc["s2"] = "v_pass" /\ loc["s2"].fa0 = loc["s1"].fa /\ loc["s2"].fa0 >= 1

\* C16: when reset_master_password(new) has returned for an existing account,
\* the stored hash is the hash of the new password and of no other, and the
\* cached key is the one derived from the new password and the stored salt;
\* an attempt on the unlocked account without 2FA then succeeds exactly with
\* the password whose hash is stored.
C16_ResetRekeys ==
    \A s \in Sessions :
        /\ (pc[s] = "idle" /\ op[s] = "reset_master_password")
              => /\ out[s] = RetNone
                 /\ user_salt \in Salts
                 /\ fer[s] = <<"key", mp[s], user_salt>>
                 /\ user_password # NoHash
                       => /\ user_password = <<"argon2", mp[s]>>
                          /\ \A old \in Passwords \ {mp[s]} :
                                ~ph_verify(user_password, old)
        /\ (pc[s] = "idle" /\ Verifying(s) /\ hash_checked[s] /\ totp_secret = "")
              => (verified[s] = "True" <=> user_password = <<"argon2", mp[s]>>)

C16_Witness ==
    /\ pc["s1"] = "idle" /\ op["s1"] = "load_key" /\ mp["s1"] = "pwA"
    /\ hash_checked["s1"] /\ totp_secret = ""
    /\ verified["s1"] = "False" /\ out["s1"] = InvalidMaster
    /\ user_password = <<"argon2", "pwB">>
    /\ fer["s1"] = <<"key", "pwB", "saltX">>

\* C17: add_wallet, get_wallet and delete_all_data called with a PIN that does
\* not verify against the stored PIN hash, or with no PIN hash stored, end at
\* once with the Invalid PIN error: no further step of the call follows (no
\* write, no decryption) and the store is as it was.
C17_BadPinRefused ==
    [][\A s \in Sessions :
          (/\ Acts(s) /\ pc[s] = "idle"
           /\ op'[s] \in {"add_wallet", "get_wallet", "delete_all_data"}
           /\ recovery_pin # <<"argon2", loc'[s].pin>>)
          => /\ pc'[s] = "idle"
             /\ out'[s] = InvalidPin
             /\ dbvars' = dbvars]_vars

C17_Witness ==
    /\ pc["s1"] = "idle" /\ op["s1"] = "delete_all_data"
    /\ out["s1"] = InvalidPin
    /\ recovery_pin = <<"argon2", "111111">> /\ loc["s1"].pin = "999999"
    /\ fer["s1"] # NoKey
    /\ site_row # NoRow /\ wallet_row # NoRow /\ doc_row # NoRow

\* C18 as claimed: an attempt denied because the lockout is active and an
\* attempt denied because the password did not match hand different outcomes
\* to their callers.
C18_DenialsDistinguishable ==
    \A s, t \in Sessions :
        (/\ pc[s] = "idle" /\ Verifying(s) /\ loc[s].t0 < loc[s].lu0
         /\ pc[t] = "idle" /\ Verifying(t) /\ printed[t] = "Error")
        => out[s] # out[t]

\* C19 as claimed: no stored field of a site credential, a wallet or a
\* document is the encryption of the sentinel "0".
C19_SentinelNeverStored ==
    /\ site_row # NoRow => \A i \in 1..2 : site_row[i][3] # "0"
    /\ wallet_row # NoRow => \A i \in 1..3 : wallet_row[i][3] # "0"
    /\ doc_row # NoRow => doc_row[2][3] # "0"

\* A field value that is neither empty nor one of the two sentinels, "0"
\* (empty field) and "gen" (generate a password; matched whatever the case
\* and the surrounding blanks).
Plain(value) == value \notin {"", "0", "gen", " GEN "}

\* C20: round trip under one key.  add_credentials given a plain username and
\* password stores exactly their encryptions under the cached key, and
\* get_credentials, past the password check and holding the key the stored
\* fields were encrypted with, returns exactly the stored username and
\* password; add_secure_doc stores the encryption of the contents it was given
\* and get_secure_doc returns the contents stored under the cached key.
C20_RoundTrip ==
    [][\A s \in Sessions :
          /\ (/\ Acts(s) /\ op'[s] = "add_credentials" /\ fer[s] # NoKey
              /\ Plain(loc'[s].args[1]) /\ Plain(loc'[s].args[2]))
                => /\ out'[s] = RetTrue
                   /\ site_row' = << <<"token", fer[s], loc'[s].args[1]>>,
                                     <<"token", fer[s], loc'[s].args[2]>> >>
          /\ (/\ pc[s] = "gc_fetch" /\ pc'[s] = "idle" /\ site_row # NoRow
              /\ site_row[1][2] = fer[s] /\ site_row[2][2] = fer[s]
              /\ Plain(site_row[1][3]) /\ Plain(site_row[2][3]))
                => out'[s] = [kind |-> "dict",
                              val |-> <<site_row[1][3], site_row[2][3]>>]
          /\ (Acts(s) /\ op'[s] = "add_secure_doc" /\ fer[s] # NoKey)
                => /\ out'[s] = RetNone
                   /\ doc_row' = <<"doc", <<"token", fer[s], loc'[s].args[1]>> >>
          /\ (/\ Acts(s) /\ op'[s] = "get_secure_doc" /\ doc_row # NoRow
              /\ doc_row[2][2] = fer[s])
                => out'[s] = [kind |-> "dict", val |-> <<"doc", doc_row[2][3]>>]]_vars

C20_Witness ==
    /\ pc["s1"] = "idle" /\ op["s1"] = "get_credentials" /\ verified["s1"] = "True"
    /\ site_row = << <<"token", fer["s1"], "alice">>, <<"token", fer["s1"], "hunter2">> >>
    /\ out["s1"] = [kind |-> "dict", val |-> <<"alice", "hunter2">>]

\* C21 as claimed: in every state fewer than five failures on record mean no
\* lockout, and no step lowers failed_attempts other than the reset to 0 by
\* an attempt whose every factor passed.
C21_CounterOnlyGrows ==
    [][/\ failed_attempts' < 5 => lockout_until' = 0
       /\ failed_attempts' < failed_attempts
             => /\ failed_attempts' = 0
                /\ \E s \in Sessions : pc[s] = "v_reset" /\ verified'[s] = "True"]_vars

\* C22 as claimed: in the session of a logged-in user every View Credentials
\* request passes the password check, a change of the master password in the
\* account settings notwithstanding: it does not end in "Invalid master
\* password" and no failure is on record after it.
C22_ViewStillAuthenticates ==
    \A s \in Sessions :
        (pc[s] = "idle" /\ op[s] = "get_credentials" /\ fer[s] # NoKey)
        => /\ verified[s] = "True"
           /\ out[s] # InvalidMaster
           /\ failed_attempts = 0

\* C23: an attempt that reads the lockout data while the clock is before
\* lockout_until ends in that step, with the right password as with a wrong
\* one, and failed_attempts and lockout_until are as they were before it.
C23_LockedAttemptChangesNothing ==
    [][\A s \in Sessions :
          (pc[s] = "v_lock" /\ pc'[s] # "v_lock" /\ now < lockout_until)
          => /\ pc'[s] = "idle" /\ verified'[s] = "False"
             /\ out'[s] = InvalidMaster
             /\ failed_attempts' = failed_attempts
             /\ lockout_until' = lockout_until]_vars

C23_Witness ==
    /\ pc["s1"] = "idle" /\ op["s1"] = "load_key" /\ verified["s1"] = "False"
    /\ loc["s1"].t0 = loc["s1"].lu0 - 1
    /\ user_password # NoHash /\ user_password # <<"argon2", mp["s1"]>>
    /\ failed_attempts = loc["s1"].fa0 /\ failed_attempts = 6
    /\ lockout_until = loc["s1"].lu0

\* C24: no step of reset_master_password changes failed_attempts,
\* lockout_until, the recovery-PIN hash, the TOTP secret or a stored record,
\* nor a salt that is on record; an account locked before the reset is locked
\* after it.
C24_ResetLeavesTheRest ==
    [][\A s \in Sessions :
          (Acts(s) /\ op'[s] = "reset_master_password")
          => /\ <<failed_attempts', lockout_until'>> = <<failed_attempts, lockout_until>>
             /\ recovery_pin' = recovery_pin
             /\ totp_secret' = totp_secret
             /\ rowvars' = rowvars
             /\ user_salt # NoSalt => user_salt' = user_salt
             /\ now < lockout_until => now' < lockout_until']_vars

C24_Witness ==
    /\ pc["s1"] = "idle" /\ op["s1"] = "reset_master_password"
    /\ out["s1"] = RetNone
    /\ user_password = <<"argon2", "pwB">>
    /\ failed_attempts = 5 /\ now < lockout_until
    /\ totp_secret # "" /\ recovery_pin # NoHash
    /\ site_row # NoRow /\ doc_row # NoRow

\* C25: a lockout ends with its window.  An attempt that reads a clock at or
\* past lockout_until, however many failures are on record, is not denied by
\* the lockout; given the password whose hash is stored and, with a TOTP
\* secret enrolled, the valid code, it succeeds and leaves failed_attempts
\* = 0 and lockout_until = 0.
C25_LockoutExpires ==
    \A s \in Sessions :
        /\ (op[s] \in {"load_key", "get_credentials"} /\ pc[s] \notin {"idle", "v_lock"})
              => loc[s].t0 >= loc[s].lu0
        /\ (/\ pc[s] = "idle" /\ Verifying(s)
             /\ loc[s].t0 >= loc[s].lu0
             /\ user_password = <<"argon2", mp[s]>>
             /\ (totp_secret # "" => loc[s].code = totp_secret))
              => /\ verified[s] = "True"
                 /\ failed_attempts = 0 /\ lockout_until = 0

C25_Witness ==
    /\ pc["s1"] = "idle" /\ op["s1"] = "load_key" /\ verified["s1"] = "True"
    /\ loc["s1"].fa0 = 6 /\ loc["s1"].lu0 > 0 /\ loc["s1"].t0 = loc["s1"].lu0
    /\ totp_secret # "" /\ loc["s1"].code = totp_secret
    /\ failed_attempts = 0 /\ lockout_until = 0
    /\ out["s1"] = RetNone

\* C26: an attempt that finds no stored password hash for the username ends
\* there in failure, without verifying anything, and failed_attempts and
\* lockout_until stay as they were: nothing is counted for an unknown user.
C26_UnknownUserNotCounted ==
    [][\A s \in Sessions :
          (pc[s] = "v_pass" /\ pc'[s] # "v_pass" /\ user_password = NoHash)
          => /\ pc'[s] = "idle" /\ verified'[s] = "False"
             /\ out'[s] = InvalidMaster
             /\ ~hash_checked'[s]
             /\ failed_attempts' = failed_attempts
             /\ lockout_until' = lockout_until]_vars

C26_Witness ==
    /\ pc["s1"] = "idle" /\ op["s1"] = "load_key"
    /\ printed["s1"] = "Invalid username or password"
    /\ user_password = NoHash
    /\ verified["s1"] = "False" /\ out["s1"] = InvalidMaster
    /\ failed_attempts = 0 /\ lockout_until = 0 /\ fer["s1"] = NoKey

====
